---- MODULE Spec2Model ----
(* Model of src/main.rs of 2steps-slack-alert: one run of main(), from      *)
(* read_config through rabbit_connect and the webhook POST to the drop of   *)
(* the Rabbit value.  Every await / block_on of the source is one step.     *)
EXTENDS Integers, Sequences, FiniteSets, TLC

VARIABLES pc, env, file, cfg, conn, chan, rabbit, calls, res, logs, ret, exit

vars == <<pc, env, file, cfg, conn, chan, rabbit, calls, res, logs, ret, exit>>

(* ---------------------------------------------------------------- bounds *)
MaxUrls == 2
MaxDocs == 2

(* ------------------------------------------------------------- constants *)
DefaultAddr == "amqp://127.0.0.1:5672/%2f"
ExchangeName == "2steps"
QueueName == "slack_alerts"
ConsumerTag == "my tag"
CloseReason == "client shut down"
StatusOK == 200

UrlPool == <<"https://x", "http://localhost:9999/hook", "https://hooks.slack.com/a",
             "https://hooks.slack.com/b">>
Urls == {UrlPool[n] : n \in 1..MaxUrls}

(* values of the AMQP_ADDR environment variable; <<>> is "unset" *)
EnvValues == {<<>>, <<"amqp://broker:5672/%2f">>}

(* HTTP statuses the webhook may answer with *)
Statuses == {200, 201, 404, 503}

(* ------------------------------------------------------------ yaml values *)
YStr(s) == [t |-> "str", s |-> s, i |-> 0, h |-> <<>>]
YInt(n) == [t |-> "int", s |-> "", i |-> n, h |-> <<>>]
YHash(pairs) == [t |-> "hash", s |-> "", i |-> 0, h |-> pairs]
YNull == [t |-> "null", s |-> "", i |-> 0, h |-> <<>>]
BadValue == [t |-> "bad", s |-> "", i |-> 0, h |-> <<>>]

(* yaml["key"]: the entry of a hash, BadValue for a missing key or a non-hash *)
YamlIndex(y, k) ==
  IF y.t = "hash" /\ \E n \in 1..Len(y.h) : y.h[n][1] = k
  THEN y.h[CHOOSE n \in 1..Len(y.h) : y.h[n][1] = k][2]
  ELSE BadValue

(* Yaml::as_str: <<s>> for a string scalar, <<>> (None) otherwise *)
as_str(y) == IF y.t = "str" THEN <<y.s>> ELSE <<>>

(* documents a configuration file may hold *)
YamlDocs ==
  {YNull, YStr("slack"), YHash(<<>>),
   YHash(<< <<"other", YStr("v")>> >>),
   YHash(<< <<"slack", YStr("url")>> >>),
   YHash(<< <<"slack", YHash(<<>>)>> >>),
   YHash(<< <<"slack", YHash(<< <<"url", YInt(5)>> >>)>> >>)}
  \cup {YHash(<< <<"slack", YHash(<< <<"url", YStr(u)>> >>)>> >>) : u \in Urls}

DocSeqs == UNION {[1..n -> YamlDocs] : n \in 0..MaxDocs}

(* the file at the configuration path: unreadable, unparsable, or a list of documents *)
Files ==
  {[readable |-> FALSE, parses |-> FALSE, docs |-> <<>>],
   [readable |-> TRUE, parses |-> FALSE, docs |-> <<>>]}
  \cup {[readable |-> TRUE, parses |-> TRUE, docs |-> d] : d \in DocSeqs}

(* ---------------------------------------------------------------- results *)
NoRet == [kind |-> "none", msg |-> "", cause |-> ""]
RetOk == [kind |-> "Ok", msg |-> "", cause |-> ""]
RetErr(m, c) == [kind |-> "Err", msg |-> m, cause |-> c]
RetPanic(m) == [kind |-> "Panic", msg |-> m, cause |-> ""]

MsgUnreadable == "Unable to read configuration"
MsgUnparsable == "Unable to parse configuration"
MsgMissingUrl == "Configuration missing required Slack URL"
MsgRabbit == "Failed to initialize rabbit"
MsgSend == "failed sending to slack"
MsgIndex == "index out of bounds"

Call(op, arg) == [op |-> op, arg |-> arg]
Log(level, msg, status) == [level |-> level, msg |-> msg, status |-> status]

(* SlackConfig::try_from *)
try_from(yaml) ==
  LET u == as_str(YamlIndex(YamlIndex(yaml, "slack"), "url"))
  IN IF u = <<>> THEN [r |-> RetErr(MsgMissingUrl, "config"), url |-> <<>>]
     ELSE [r |-> RetOk, url |-> u]

(* read_config: fs::read_to_string, YamlLoader::load_from_str, docs[0], try_from *)
read_config(f) ==
  IF ~f.readable THEN [r |-> RetErr(MsgUnreadable, "config"), url |-> <<>>]
  ELSE IF ~f.parses THEN [r |-> RetErr(MsgUnparsable, "config"), url |-> <<>>]
  ELSE IF Len(f.docs) = 0 THEN [r |-> RetPanic(MsgIndex), url |-> <<>>]
  ELSE try_from(f.docs[1])

(* std::env::var("AMQP_ADDR").unwrap_or_else(default) *)
ResolveAddr(e) == IF e = <<>> THEN DefaultAddr ELSE e[1]

(* process outcome for a value returned by main *)
ExitOf(r) == IF r.kind = "Ok" THEN "success" ELSE IF r.kind = "Panic" THEN "panic" ELSE "error"

(* ------------------------------------------------------------------- init *)
Init ==
  /\ pc = "read_config"
  /\ env \in EnvValues
  /\ file \in Files
  /\ cfg = <<>>
  /\ conn = "none"
  /\ chan = "none"
  /\ rabbit = FALSE
  /\ calls = <<>>
  /\ res = 0
  /\ logs = <<>>
  /\ ret = NoRet
  /\ exit = "running"

(* ---------------------------------------------------------------- actions *)
(* variant of ReadConfig: a configuration failure is recorded but the run goes on *)
ReadConfig_Continue ==
  /\ pc = "read_config"
  /\ LET c == read_config(file)
     IN /\ logs' = Append(logs, Log("info", "Reading configuration", 0))
        /\ IF c.r.kind = "Ok"
           THEN /\ cfg' = c.url
                /\ UNCHANGED <<ret, exit>>
           ELSE /\ ret' = c.r
                /\ exit' = ExitOf(c.r)
                /\ UNCHANGED cfg
        /\ pc' = "connect"
  /\ UNCHANGED <<env, file, conn, chan, rabbit, calls, res>>

(* main: let cfg = read_config(..)?  *)
ReadConfig ==
  /\ pc = "read_config"
  /\ LET c == read_config(file)
     IN /\ logs' = Append(logs, Log("info", "Reading configuration", 0))
        /\ IF c.r.kind = "Ok"
           THEN /\ cfg' = c.url
                /\ pc' = "connect"
                /\ UNCHANGED <<ret, exit>>
           ELSE /\ ret' = c.r
                /\ exit' = ExitOf(c.r)
                /\ pc' = "done"
                /\ UNCHANGED cfg
  /\ UNCHANGED <<env, file, conn, chan, rabbit, calls, res>>

(* a step of rabbit_connect failed: `?` returns the error, main maps it and returns;
   the locals conn / chan go out of scope without any close call *)
ConnectAbort(step) ==
  /\ ret' = RetErr(MsgRabbit, step)
  /\ exit' = "error"
  /\ pc' = "done"
  /\ conn' = IF conn = "open" THEN "dropped" ELSE conn
  /\ chan' = IF chan = "open" THEN "dropped" ELSE chan

(* variant of Connect: a failed handshake still runs the teardown closes *)
Connect_FailTeardown ==
  /\ pc = "connect"
  /\ calls' = Append(calls, Call("connect", ResolveAddr(env)))
  /\ \E ok \in BOOLEAN :
       IF ok
       THEN /\ conn' = "open"
            /\ pc' = "create_channel"
            /\ UNCHANGED <<chan, ret, exit>>
       ELSE /\ ret' = RetErr(MsgRabbit, "connect")
            /\ pc' = "drop_chan"
            /\ UNCHANGED <<conn, chan, exit>>
  /\ UNCHANGED <<env, file, cfg, rabbit, res, logs>>

(* rabbit_connect: Connection::connect(&addr, ..).await? *)
Connect ==
  /\ pc = "connect"
  /\ calls' = Append(calls, Call("connect", ResolveAddr(env)))
  /\ \E ok \in BOOLEAN :
       IF ok
       THEN /\ conn' = "open"
            /\ pc' = "create_channel"
            /\ UNCHANGED <<chan, ret, exit>>
       ELSE ConnectAbort("connect")
  /\ UNCHANGED <<env, file, cfg, rabbit, res, logs>>

(* variant of CreateChannel: the error of create_channel is ignored *)
CreateChannel_IgnoreError ==
  /\ pc = "create_channel"
  /\ calls' = Append(calls, Call("create_channel", ""))
  /\ \E ok \in BOOLEAN :
       /\ chan' = IF ok THEN "open" ELSE chan
       /\ pc' = "exchange_declare"
       /\ UNCHANGED <<conn, ret, exit>>
  /\ UNCHANGED <<env, file, cfg, rabbit, res, logs>>

(* rabbit_connect: conn.create_channel().await? *)
CreateChannel ==
  /\ pc = "create_channel"
  /\ calls' = Append(calls, Call("create_channel", ""))
  /\ \E ok \in BOOLEAN :
       IF ok
       THEN /\ chan' = "open"
            /\ pc' = "exchange_declare"
            /\ UNCHANGED <<conn, ret, exit>>
       ELSE ConnectAbort("create_channel")
  /\ UNCHANGED <<env, file, cfg, rabbit, res, logs>>

(* rabbit_connect: chan.exchange_declare(ex, Headers, ..).await? *)
ExchangeDeclare ==
  /\ pc = "exchange_declare"
  /\ calls' = Append(calls, Call("exchange_declare", ExchangeName))
  /\ \E ok \in BOOLEAN :
       IF ok
       THEN /\ pc' = "queue_declare"
            /\ UNCHANGED <<conn, chan, ret, exit>>
       ELSE ConnectAbort("exchange_declare")
  /\ UNCHANGED <<env, file, cfg, rabbit, res, logs>>

(* rabbit_connect: chan.queue_declare(q, ..).await? *)
QueueDeclare ==
  /\ pc = "queue_declare"
  /\ calls' = Append(calls, Call("queue_declare", QueueName))
  /\ \E ok \in BOOLEAN :
       IF ok
       THEN /\ pc' = "basic_consume"
            /\ UNCHANGED <<conn, chan, ret, exit>>
       ELSE ConnectAbort("queue_declare")
  /\ UNCHANGED <<env, file, cfg, rabbit, res, logs>>

(* variant of BasicConsume: the Rabbit value is dropped as soon as it is built *)
BasicConsume_DropEarly ==
  /\ pc = "basic_consume"
  /\ calls' = Append(calls, Call("basic_consume", ConsumerTag))
  /\ \E ok \in BOOLEAN :
       IF ok
       THEN /\ rabbit' = TRUE
            /\ logs' = Append(logs, Log("info", "Completed rabbit bus initialization", 0))
            /\ pc' = "drop_chan"
            /\ UNCHANGED <<conn, chan, ret, exit>>
       ELSE /\ ConnectAbort("basic_consume")
            /\ UNCHANGED <<rabbit, logs>>
  /\ UNCHANGED <<env, file, cfg, res>>

(* rabbit_connect: chan.clone().basic_consume(q, "my tag", ..).await?; Ok(Rabbit {..}) *)
BasicConsume ==
  /\ pc = "basic_consume"
  /\ calls' = Append(calls, Call("basic_consume", ConsumerTag))
  /\ \E ok \in BOOLEAN :
       IF ok
       THEN /\ rabbit' = TRUE
            /\ logs' = Append(logs, Log("info", "Completed rabbit bus initialization", 0))
            /\ pc' = "post"
            /\ UNCHANGED <<conn, chan, ret, exit>>
       ELSE /\ ConnectAbort("basic_consume")
            /\ UNCHANGED <<rabbit, logs>>
  /\ UNCHANGED <<env, file, cfg, res>>

(* main: client.post(&cfg.slack.url).json(&body).send() *)
Post ==
  /\ pc = "post"
  /\ calls' = Append(calls, Call("post", cfg[1]))
  /\ pc' = "await_response"
  /\ UNCHANGED <<env, file, cfg, conn, chan, rabbit, res, logs, ret, exit>>

(* variant of Response: a status other than 200 makes the POST be sent again *)
Response_Retry ==
  /\ pc = "await_response"
  /\ \/ /\ ret' = RetErr(MsgSend, "send")
        /\ pc' = "drop_chan"
        /\ UNCHANGED <<res, logs>>
     \/ \E s \in Statuses :
          /\ res' = s
          /\ logs' = Append(logs, IF s = StatusOK
                                  THEN Log("debug", "Message acknowledged by Slack", 0)
                                  ELSE Log("error", "Slack returned", s))
          /\ IF s = StatusOK \/ Len(logs) > 6
             THEN ret' = RetOk /\ pc' = "drop_chan"
             ELSE ret' = ret /\ pc' = "post"
  /\ UNCHANGED <<env, file, cfg, conn, chan, rabbit, calls, exit>>

(* main: .await.map_err(..)?; match res.status() {..}; Ok(()) *)
Response ==
  /\ pc = "await_response"
  /\ \/ /\ ret' = RetErr(MsgSend, "send")
        /\ UNCHANGED <<res, logs>>
     \/ \E s \in Statuses :
          /\ res' = s
          /\ logs' = Append(logs, IF s = StatusOK
                                  THEN Log("debug", "Message acknowledged by Slack", 0)
                                  ELSE Log("error", "Slack returned", s))
          /\ ret' = RetOk
  /\ pc' = "drop_chan"
  /\ UNCHANGED <<env, file, cfg, conn, chan, rabbit, calls, exit>>

(* variant of DropChanClose: the first close of the drop goes to the connection *)
DropChanClose_ConnFirst ==
  /\ pc = "drop_chan"
  /\ calls' = Append(calls, Call("conn_close", CloseReason))
  /\ \E ok \in BOOLEAN :
       IF ok
       THEN /\ conn' = "closed"
            /\ pc' = "drop_conn"
            /\ UNCHANGED <<chan, exit>>
       ELSE /\ exit' = "panic"
            /\ pc' = "done"
            /\ chan' = "dropped"
            /\ conn' = "dropped"
  /\ UNCHANGED <<env, file, cfg, rabbit, res, logs, ret>>

(* Drop for Rabbit: block_on(self.chan.close(200, "client shut down")).unwrap() *)
DropChanClose ==
  /\ pc = "drop_chan"
  /\ calls' = Append(calls, Call("chan_close", CloseReason))
  /\ \E ok \in BOOLEAN :
       IF ok
       THEN /\ chan' = "closed"
            /\ pc' = "drop_conn"
            /\ UNCHANGED <<conn, exit>>
       ELSE /\ exit' = "panic"
            /\ pc' = "done"
            /\ chan' = "dropped"
            /\ conn' = "dropped"
  /\ UNCHANGED <<env, file, cfg, rabbit, res, logs, ret>>

(* Drop for Rabbit: block_on(self.conn.close(200, "client shut down")).unwrap(); info!("Shut down") *)
DropConnClose ==
  /\ pc = "drop_conn"
  /\ calls' = Append(calls, Call("conn_close", CloseReason))
  /\ \E ok \in BOOLEAN :
       IF ok
       THEN /\ conn' = "closed"
            /\ logs' = Append(logs, Log("info", "Shut down", 0))
            /\ exit' = ExitOf(ret)
       ELSE /\ conn' = "dropped"
            /\ exit' = "panic"
            /\ UNCHANGED logs
  /\ pc' = "done"
  /\ UNCHANGED <<env, file, cfg, chan, rabbit, res, ret>>

Next ==
  \/ ReadConfig
  \/ Connect
  \/ CreateChannel
  \/ ExchangeDeclare
  \/ QueueDeclare
  \/ BasicConsume
  \/ Post
  \/ Response
  \/ DropChanClose
  \/ DropConnClose

Spec == Init /\ [][Next]_vars


(* ------------------------------------------------------------- properties *)
Count(op) == Cardinality({n \in 1..Len(calls) : calls[n].op = op})
Issued(op) == \E n \in 1..Len(calls) : calls[n].op = op
Before(a, b) == \A n \in 1..Len(calls) : calls[n].op = b => \E m \in 1..(n-1) : calls[m].op = a

SetupOrder == <<"connect", "create_channel", "exchange_declare", "queue_declare", "basic_consume">>
SessionOrder == SetupOrder \o <<"chan_close", "conn_close">>
IsBrokerCall(c) == c.op # "post"
BrokerOps == LET b == SelectSeq(calls, IsBrokerCall) IN [n \in 1..Len(b) |-> b[n].op]
SetupSteps == {SetupOrder[n] : n \in 1..Len(SetupOrder)}

(* C1: whenever the connection close has been issued, the channel close was issued
   earlier in the same run; the connection is never closed ahead of the channel. *)
ChannelClosedBeforeConnection ==
  /\ Before("chan_close", "conn_close")
  /\ Issued("conn_close") => rabbit /\ chan = "closed"

ChannelClosedBeforeConnection_Witness ==
  pc = "done" /\ rabbit /\ Issued("conn_close") /\ conn = "closed"

(* C2 (as claimed): a failing channel or connection close is absorbed; a run that reached
   teardown ends with the outcome of its returned value and the connection close is
   always attempted. *)
TeardownFailureAbsorbed ==
  (pc = "done" /\ rabbit) => exit = ExitOf(ret) /\ Issued("conn_close")

(* C3 (as claimed): every run whose connection handshake succeeded closes the connection
   exactly once, and the channel exactly once if it was opened, before the run ends. *)
ShutdownExactlyOnce ==
  (pc = "done" /\ conn # "none") =>
     /\ Count("conn_close") = 1
     /\ chan # "none" => Count("chan_close") = 1

(* C4: broker calls are issued in the fixed order connect, create_channel,
   exchange_declare, queue_declare, basic_consume, channel close, connection close with
   none skipped; each step runs only after the one before it succeeded; a failed step is
   the last broker call of the run and yields no Rabbit value. *)
LinearSession ==
  /\ Len(BrokerOps) <= Len(SessionOrder)
  /\ \A n \in 1..Len(BrokerOps) : BrokerOps[n] = SessionOrder[n]
  /\ Issued("create_channel") => conn # "none"
  /\ Issued("exchange_declare") => chan # "none"
  /\ rabbit <=> (Issued("basic_consume") /\ ret.cause \notin SetupSteps /\ pc # "basic_consume")
  /\ ret.cause \in SetupSteps =>
       /\ ~rabbit
       /\ pc = "done"
       /\ calls[Len(calls)].op = ret.cause
  /\ Issued("chan_close") => rabbit

LinearSession_Witness ==
  pc = "done" /\ ret.cause = "exchange_declare" /\ Len(calls) = 3

(* C5: at most one POST is issued in any run, and a run that ends successfully has
   issued exactly one; neither a transport failure nor a non-200 status repeats it. *)
SinglePost ==
  /\ Count("post") <= 1
  /\ exit = "success" => Count("post") = 1
  /\ res # 0 => Count("post") = 1
  /\ ret.cause = "send" => Count("post") = 1

SinglePost_Witness ==
  pc = "done" /\ res = 503 /\ Count("post") = 1

(* C6: the stages run in the order configuration, broker session, notification; a run
   whose configuration load failed issues no call at all, a run whose broker session
   failed to open issues no POST, and both end with a non-success outcome. *)
StagesInOrder ==
  /\ Before("basic_consume", "post")
  /\ Issued("connect") => cfg # <<>> /\ ret.cause # "config" /\ ret.kind # "Panic"
  /\ Issued("post") => rabbit
  /\ (ret.cause = "config" \/ ret.kind = "Panic") =>
        calls = <<>> /\ pc = "done" /\ exit # "success" /\ exit # "running"
  /\ ret.cause \in SetupSteps =>
        ~Issued("post") /\ pc = "done" /\ exit = "error" /\ ret.msg = MsgRabbit

StagesInOrder_Witness ==
  pc = "done" /\ ret.cause = "queue_declare" /\ ~Issued("post")

(* C7 (as claimed): once the POST got a response the run ends with success for every
   status, 200 logged as acknowledged and any other status logged as rejected with
   that status, and the teardown ran. *)
RejectionNonFatal ==
  (pc = "done" /\ res # 0) =>
     /\ exit = "success"
     /\ Issued("chan_close")
     /\ \E n \in 1..Len(logs) :
          logs[n] = IF res = StatusOK
                    THEN Log("debug", "Message acknowledged by Slack", 0)
                    ELSE Log("error", "Slack returned", res)

LacksSlackUrl(f) ==
  Len(f.docs) = 0 \/ as_str(YamlIndex(YamlIndex(f.docs[1], "slack"), "url")) = <<>>

(* C8 (as claimed): loading a readable, parsable file that lacks a string slack.url,
   a file of zero documents included, returns the missing-field error and never panics. *)
MissingFieldNeverPanics ==
  (pc # "read_config" /\ file.readable /\ file.parses /\ LacksSlackUrl(file)) =>
     ret = RetErr(MsgMissingUrl, "config") /\ exit = "error"

(* C9: when the connection handshake fails, connect is the only call of the run: no
   channel, exchange, queue or consumer call and no close call is issued, no Rabbit
   value exists and the run ends with the rabbit initialization error. *)
ConnectFailureClean ==
  /\ ret.cause = "connect" =>
       /\ calls = <<Call("connect", ResolveAddr(env))>>
       /\ conn = "none" /\ chan = "none" /\ ~rabbit
       /\ pc = "done" /\ exit = "error" /\ ret.msg = MsgRabbit
  /\ (pc = "done" /\ conn = "none" /\ Issued("connect")) => ret.cause = "connect"

ConnectFailureClean_Witness ==
  pc = "done" /\ ret.cause = "connect" /\ env = <<>> /\ Len(calls) = 1

(* C10: while the POST is not yet issued or is in flight the session is live (connection
   and channel open, consumer registered, no close issued); a close is issued only
   after the send attempt resolved. *)
PostWhileSessionLive ==
  /\ pc \in {"post", "await_response"} =>
       /\ rabbit /\ conn = "open" /\ chan = "open"
       /\ ~Issued("chan_close") /\ ~Issued("conn_close")
  /\ (Issued("chan_close") \/ Issued("conn_close") \/ chan = "closed" \/ conn = "closed") =>
       /\ Issued("post")
       /\ ret.kind \in {"Ok", "Err"}
       /\ Before("post", "chan_close")
  /\ Issued("post") => Before("basic_consume", "post")

PostWhileSessionLive_Witness ==
  pc = "drop_conn" /\ ret.cause = "send" /\ chan = "closed" /\ Count("post") = 1

====
